---- MODULE Spec2Model ----
(***************************************************************************)
(* testnet: a parent process spawns a switch process, the switch spawns    *)
(* one process per node and runs the IPC broker; every node runs the user  *)
(* `main` with a Context whose step primitives talk to the broker over a   *)
(* request pipe and a reply pipe.                                          *)
(*                                                                         *)
(* Modelled from src/src/context.rs (Context, BroadcastOne),               *)
(* src/src/network.rs (testnet, Network, the switch and node mains),       *)
(* src/src/config.rs (NodeConfig) and src/src/main.rs (do_main).  The      *)
(* broker (ipc_server / ipc_state) and the message type are not among the  *)
(* sources; they are modelled from spec.md 3, 4.6 and 5.                   *)
(***************************************************************************)
EXTENDS Integers, Sequences, FiniteSets, TLC

\* ------------------------------------------------------------------ bounds
\* Nodes of the largest network, requests all nodes of a network may make
\* together (each node gets an equal share), and distinct payloads.
MaxNodes == 3
MaxCalls == 4
MaxPayload == 2

Payloads == 1..MaxPayload
NoData == 0
NodeIds == 0..(MaxNodes - 1)

VARIABLES
    n,              \* config.nodes.len()
    plan,           \* the steps a well-behaved `main` runs; <<>> for any `main`
    testnetResult,  \* what testnet() returned: "none" while running, "Ok", "Err"
    spc,            \* where the switch process is
    swStatus,       \* WaitStatus of the switch process
    spawned,        \* number of node processes the switch has spawned
    state,          \* broker slot table: node -> NodeState
    reqPipe,        \* node -> switch pipe: sequence of requests in flight
    repPipe,        \* switch -> node pipe: sequence of replies in flight
    repClosed,      \* switch closed its end of the reply pipe
    npc,            \* where each node process is
    status,         \* WaitStatus of each node process
    step,           \* Context.step
    step_name,      \* Context.step_name
    log,            \* diagnostics written by the Context of each node
    op,             \* primitive the node is in, or called last
    arg,            \* its data argument
    ret,            \* what the last primitive returned
    calls,          \* primitives called so far
    reps,           \* replies read so far
    round,          \* steps the broker has completed
    roundOp,        \* what every node had called in the last completed step,
    roundArg,       \* kept until the last reply of the step has been read
    newResult,      \* what Network::new returned: "none" while running, "Ok", "Err"
    cliExit,        \* ExitCode of the command-line front end
    ppc,            \* where the parent is in Network::new
    procWrites,     \* the /proc/<pid> files the parent has written, in order
    ready,          \* the sender end of the ready channel: "open" or "closed"
    swOps,          \* netlink operations the switch has completed, in order
    cpc,            \* steps of configure_network each node has completed
    link,           \* the veth pair, loopback and netlink socket of each node
    held,           \* switch-side pipe ends each node process holds open
    outbox,         \* replies of a completed step the broker has yet to write
    base,           \* nodes of config.nodes ahead of the n nodes followed here
    config_nodes,   \* config.nodes: the NodeConfig the caller gave for each node
    all_node_configs, \* the normalised node list, as far as the switch has built it
    mounted,        \* the bind mount over /etc/hosts: "none", "ok" or "failed"
    swLog           \* diagnostics written by the switch

vars == <<n, plan, testnetResult, spc, swStatus, spawned, state, reqPipe, repPipe,
          repClosed, npc, status, step, step_name, log, op, arg, ret, calls,
          reps, round, roundOp, roundArg, newResult, cliExit, ppc, procWrites,
          ready, swOps, cpc, link, held, outbox, base, config_nodes,
          all_node_configs, mounted, swLog>>

switchVars == <<spc, swStatus, spawned>>
pipeVars == <<reqPipe, repPipe, repClosed>>
ctxVars == <<step, step_name, log>>
callVars == <<op, arg, ret, calls, reps>>
roundVars == <<round, roundOp, roundArg>>
parentVars == <<newResult, cliExit, ppc, procWrites, ready>>
netVars == <<swOps, cpc, link>>
hostVars == <<base, config_nodes, all_node_configs, mounted, swLog>>

Nodes == 0..(n - 1)

\* Primitives `main` may call on one node.
MaxSteps == MaxCalls \div n

\* ---------------------------------------------------------------- messages
\* IpcMessage, as context.rs builds and matches it.
MsgSend(data) == [tag |-> "Send", data |-> data]
MsgReceive == [tag |-> "Receive", data |-> NoData]
MsgWait_as_receive == [tag |-> "Receive", data |-> NoData]

MsgWait == [tag |-> "Wait", data |-> NoData]
MsgBroadcastAllSend(data) == [tag |-> "BroadcastAllSend", data |-> data]
MsgBroadcastAllRecv(payload) == [tag |-> "BroadcastAllRecv", data |-> payload]

\* Results of the primitives: Ok(()), Ok(data), Ok(all_data) and Err(e), as
\* tuples of different lengths so that any two of them can be compared.
OkUnit == <<"Ok">>
OkData(data) == <<"Ok", data>>
OkAll(all_data) == <<"Ok", "all", all_data>>
Err(e) == <<"Err", "io", "other", e>>
NoRet == <<"none">>
None == "None"
NoResponse == [tag |-> "None", data |-> NoData]
StepName == "s"

\* WaitStatus of a process.
Exited(code) == <<"Exited", code>>
Signaled == <<"Signaled">>
Running == <<"none">>

\* ------------------------------------------------------ network interfaces
\* The interfaces of one node: where the inner end veth<i> of its pair is
\* ("none" before the pair exists, then "switch", then "node"), the state
\* of the outer end n<i>, of lo and of veth<i> in the node's namespace, and
\* the namespace of the netlink socket the node has open.
NoLink ==
    [inner |-> "none", outer_up |-> FALSE, bridged |-> FALSE, lo_up |-> FALSE,
     index |-> FALSE, up |-> FALSE, addr |-> FALSE, sock |-> "none"]

configure_network_index_first ==
    <<"netlink_parent", "index_bridge", "new_veth_pair", "set_up_outer",
      "set_bridge", "index_inner", "set_network_namespace", "netlink_child",
      "set_up_lo", "set_up_inner", "set_ifaddr">>

\* configure_network: its steps in program order.  "netlink_parent" is the
\* setns to the switch's namespace with Netlink::new, "netlink_child" the
\* setns back with the second Netlink::new.
configure_network ==
    <<"netlink_parent", "index_bridge", "new_veth_pair", "set_up_outer",
      "set_bridge", "set_network_namespace", "netlink_child", "set_up_lo",
      "index_inner", "set_up_inner", "set_ifaddr">>

\* veth<i> is in the namespace the open netlink socket belongs to.
InnerVisible(l) ==
    \/ l.sock = "parent" /\ l.inner = "switch"
    \/ l.sock = "child" /\ l.inner = "node"

\* The kernel acknowledges the netlink operation o (spec.md 4.3); bridge
\* tells whether the bridge `testnet` exists in the switch's namespace.
NetlinkOk(o, l, bridge) ==
    CASE o = "netlink_parent" -> TRUE
      [] o = "index_bridge" -> l.sock = "parent" /\ bridge
      [] o = "new_veth_pair" -> l.sock = "parent" /\ l.inner = "none"
      [] o = "set_up_outer" -> l.sock = "parent" /\ l.inner # "none"
      [] o = "set_bridge" -> l.sock = "parent" /\ l.inner # "none" /\ bridge
      [] o = "set_network_namespace" -> l.sock = "parent" /\ l.inner = "switch"
      [] o = "netlink_child" -> TRUE
      [] o = "set_up_lo" -> l.sock = "child"
      [] o = "index_inner" -> InnerVisible(l)
      [] o = "set_up_inner" -> InnerVisible(l)
      [] o = "set_ifaddr" -> InnerVisible(l) /\ l.index

\* The effect of the acknowledged operation o.
NetlinkDo(o, l) ==
    CASE o = "netlink_parent" -> [l EXCEPT !.sock = "parent"]
      [] o = "index_bridge" -> l
      [] o = "new_veth_pair" -> [l EXCEPT !.inner = "switch"]
      [] o = "set_up_outer" -> [l EXCEPT !.outer_up = TRUE]
      [] o = "set_bridge" -> [l EXCEPT !.bridged = TRUE]
      [] o = "set_network_namespace" -> [l EXCEPT !.inner = "node", !.sock = "none"]
      [] o = "netlink_child" -> [l EXCEPT !.sock = "child"]
      [] o = "set_up_lo" -> [l EXCEPT !.lo_up = TRUE]
      [] o = "index_inner" -> [l EXCEPT !.index = TRUE]
      [] o = "set_up_inner" -> [l EXCEPT !.up = TRUE]
      [] o = "set_ifaddr" -> [l EXCEPT !.addr = TRUE, !.sock = "none"]

\* The interfaces after the first k steps of configure_network, and whether
\* the kernel acknowledges all of them.
RECURSIVE Configured(_)
Configured(k) ==
    IF k = 0 THEN NoLink ELSE NetlinkDo(configure_network[k], Configured(k - 1))

Configurable(k, bridge) ==
    \A m \in 1..k : NetlinkOk(configure_network[m], Configured(m - 1), bridge)

\* The node process is gone, and its namespace with it: a veth<i> that was
\* moved there is destroyed together with its peer.
LinkGone(l) ==
    IF l.inner = "node" THEN NoLink
    ELSE [l EXCEPT !.lo_up = FALSE, !.index = FALSE, !.up = FALSE,
                   !.addr = FALSE, !.sock = "none"]

\* The bridge exists from new_bridge until the switch's namespace is gone.
BridgeExists ==
    /\ spc # "exited"
    /\ \E m \in 1..Len(swOps) : swOps[m] = "new_bridge"

\* ------------------------------------------------------------ descriptors
\* The ends of node j's request, reply and stdio pipes, named as the spawn
\* loop names them: the *_self ends are the switch's, the *_other ends the
\* node's.
SelfEnds(j) == {<<j, "in_self">>, <<j, "out_self">>, <<j, "output_self">>}
OtherEnds(j) == {<<j, "in_other">>, <<j, "out_other">>, <<j, "output_other">>}

\* The descriptors open in the switch when it spawns node i: the switch's
\* ends of the nodes spawned before, and all ends of node i's pipes.
SwitchHeldAtSpawn(i) ==
    UNION {SelfEnds(j) : j \in 0..(i - 1)} \cup SelfEnds(i) \cup OtherEnds(i)

\* The child gets a copy of them and drops the pipe ends it names.
ChildHeld(i) == SwitchHeldAtSpawn(i) \ SelfEnds(i)

\* ---------------------------------------------------------------- node list
\* An IPv4 address is its 32-bit number, an IpNet an address with a prefix
\* length, a NodeConfig a name with an IpNet.
Ipv4Addr(a, b, c, d) == ((a * 256 + b) * 256 + c) * 256 + d
IpNet(addr, prefix_len) == [addr |-> addr, prefix_len |-> prefix_len]
NodeConfig(name, ifaddr) == [name |-> name, ifaddr |-> ifaddr]

\* NodeConfig::default(): the empty name and IpNet::default(), 0.0.0.0/0.
NodeConfigDefault == NodeConfig("", IpNet(Ipv4Addr(0, 0, 0, 0), 0))

is_unspecified(addr) == addr = Ipv4Addr(0, 0, 0, 0)

\* The network the default addresses are taken from.
net == IpNet(Ipv4Addr(10, 84, 0, 0), 16)

\* IpNet::hosts(): the addresses of the network from the first to the last
\* one, without the network and the broadcast address when the prefix is
\* shorter than 31 bits.
AddrBits == 32
network(ipnet) == ipnet.addr - (ipnet.addr % (2 ^ (AddrBits - ipnet.prefix_len)))
broadcast(ipnet) == network(ipnet) + 2 ^ (AddrBits - ipnet.prefix_len) - 1
hosts_start(ipnet) ==
    IF ipnet.prefix_len < 31 THEN network(ipnet) + 1 ELSE network(ipnet)
hosts_end(ipnet) ==
    IF ipnet.prefix_len < 31 THEN broadcast(ipnet) - 1 ELSE broadcast(ipnet)
HostCount == hosts_end(net) - hosts_start(net) + 1

NoHost == -1

hosts_nth_wrapping(ipnet, i) ==
    hosts_start(ipnet) + (i % (hosts_end(ipnet) - hosts_start(ipnet) + 1))

\* hosts().nth(i): the i-th host counted from 0, None past the last one.
hosts_nth(ipnet, i) ==
    IF hosts_start(ipnet) + i <= hosts_end(ipnet) THEN hosts_start(ipnet) + i
    ELSE NoHost

outer_ifname(i) == "n" \o ToString(i)

\* One turn of the loop over config.nodes, at index i: whether it returns
\* the error of ok_or, and the NodeConfig it pushes when it does not.
Exhausts(i, node_config) ==
    is_unspecified(node_config.ifaddr.addr) /\ hosts_nth(net, i) = NoHost

normalise(i, node_config) ==
    NodeConfig(IF node_config.name = "" THEN outer_ifname(i) ELSE node_config.name,
               IF is_unspecified(node_config.ifaddr.addr)
               THEN IpNet(hosts_nth(net, i), net.prefix_len)
               ELSE node_config.ifaddr)

\* The index in config.nodes of node k.
Position(k) == base + k

\* all_node_configs after the turns of the first k nodes.
Normalised(k) == [j \in 1..k |-> normalise(Position(j - 1), config_nodes[j - 1])]

\* The nodes whose turn returns the error.
Exhausted == {k \in 0..(n - 1) : Exhausts(Position(k), config_nodes[k])}

\* The configurations of the command-line front end: every node the default.
DefaultNodes ==
    /\ base = 0
    /\ config_nodes = [i \in NodeIds |-> NodeConfigDefault]

\* Diagnostics of the switch.
MountWarning == <<"WARNING: bind mount failed">>
NetworkMainFailed(e) == <<"network main failed", e>>

\* The state after construction, before testnet() is called.
Start ==
    /\ n \in 1..MaxNodes
    /\ testnetResult = "none"
    /\ spc = "unborn"
    /\ swStatus = Running
    /\ spawned = 0
    /\ state = [i \in NodeIds |-> [tag |-> "Idle", data |-> NoData]]
    /\ reqPipe = [i \in NodeIds |-> <<>>]
    /\ repPipe = [i \in NodeIds |-> <<>>]
    /\ repClosed = [i \in NodeIds |-> FALSE]
    /\ npc = [i \in NodeIds |-> "unborn"]
    /\ status = [i \in NodeIds |-> Running]
    /\ step = [i \in NodeIds |-> 0]
    /\ step_name = [i \in NodeIds |-> None]
    /\ log = [i \in NodeIds |-> <<>>]
    /\ op = [i \in NodeIds |-> "none"]
    /\ arg = [i \in NodeIds |-> NoData]
    /\ ret = [i \in NodeIds |-> NoRet]
    /\ calls = [i \in NodeIds |-> 0]
    /\ reps = [i \in NodeIds |-> 0]
    /\ round = 0
    /\ roundOp = [i \in NodeIds |-> "none"]
    /\ roundArg = [i \in NodeIds |-> NoData]
    /\ newResult = "none"
    /\ cliExit = "none"
    /\ ppc = "new"
    /\ procWrites = <<>>
    /\ ready = "open"
    /\ swOps = <<>>
    /\ cpc = [i \in NodeIds |-> 0]
    /\ link = [i \in NodeIds |-> NoLink]
    /\ held = [i \in NodeIds |-> {}]
    /\ outbox = <<>>
    /\ all_node_configs = <<>>
    /\ mounted = "none"
    /\ swLog = <<>>

\* `main` is any function of the Context.
Init == Start /\ plan = <<>> /\ DefaultNodes

\* ------------------------------------------------------- parent and switch
testnet_any_exit(waitStatus) == IF waitStatus[1] = "Exited" THEN "Ok" ELSE "Err"

\* testnet(): the match on the switch's WaitStatus.
testnet(waitStatus) == IF waitStatus = Exited(0) THEN "Ok" ELSE "Err"

network_switch_main_zero(result) == 0

\* network_switch_main(): a result of do_network_switch_main to an exit code.
network_switch_main(result) == IF result = "Ok" THEN 0 ELSE 1

\* network_node_main(): a result of do_network_node_main to an exit code.
network_node_main_one(result) == 1

network_node_main(result) == IF result = "Ok" THEN 0 ELSE 1

wait_status_ok_any_exit(st) == st[1] = "Exited"

wait_status_ok(st) == st = Exited(0)

\* The tail of do_network_switch_main: all_ret.iter().all(wait_status_ok).
ReapResult(all_ret) ==
    IF \A i \in DOMAIN all_ret : wait_status_ok(all_ret[i]) THEN "Ok" ELSE "Err"

\* The parent is the library's testnet() and the command-line front end's
\* do_main() alike: both call Network::new and then Network::wait.
main(result) == IF result = "Ok" THEN "SUCCESS" ELSE "FAILURE"

\* do_main(): `Network::new(config)?; network.wait()?; Ok(())`.
do_main(new, waitStatus) == IF new = "Err" THEN "Err" ELSE "Ok"

ProcFiles == <<"uid_map", "setgroups", "gid_map">>

\* Network::new as one step: spawn the switch, write the id maps, release
\* the switch.  When it fails no switch runs, and the caller returns the
\* error.
NetworkNew ==
    /\ ppc = "new"
    /\ spc = "unborn"
    /\ testnetResult = "none"
    /\ \/ /\ spc' = "setup"
          /\ newResult' = "Ok"
          /\ ppc' = "wait"
          /\ procWrites' = ProcFiles
          /\ ready' = "closed"
          /\ UNCHANGED <<testnetResult, cliExit>>
       \/ /\ testnetResult' = "Err"
          /\ newResult' = "Err"
          /\ cliExit' = main(do_main("Err", swStatus))
          /\ ppc' = "done"
          /\ UNCHANGED <<spc, procWrites, ready>>
    /\ UNCHANGED <<n, plan, hostVars, swStatus, spawned, state, pipeVars, npc, status,
                   ctxVars, callVars, roundVars, netVars, held, outbox>>

\* The netlink operations of the switch, in program order.
SwitchOps == <<"netlink_new", "new_bridge">>

\* do_network_switch_main up to the spawn loop: names, bridge, node list,
\* hosts file.  A failure makes the switch exit with network_switch_main's code.
SwitchSetup ==
    /\ spc = "setup"
    /\ ready = "closed"
    /\ \/ /\ Exhausted = {}
          /\ spc' = "spawn"
          /\ swOps' = SwitchOps
          /\ all_node_configs' = Normalised(n)
          /\ \/ mounted' = "ok" /\ UNCHANGED swLog
             \/ mounted' = "failed" /\ swLog' = Append(swLog, MountWarning)
          /\ UNCHANGED swStatus
       \/ /\ spc' = "exited"
          /\ swStatus' = Exited(network_switch_main("Err"))
          /\ \E k \in 0..(Len(SwitchOps) - 1) : swOps' = SubSeq(SwitchOps, 1, k)
          /\ swLog' = Append(swLog, NetworkMainFailed("error"))
          /\ UNCHANGED <<all_node_configs, mounted>>
    /\ UNCHANGED <<n, plan, base, config_nodes, testnetResult, spawned, state,
                   pipeVars, npc, status, ctxVars, callVars, roundVars, parentVars,
                   cpc, link, held, outbox>>

BrokerSlots_short == 0..(n - 2)

\* The nodes the switch hands to IpcServer::new: one ipc_fds entry per node.
BrokerSlots == 0..(n - 1)

\* One turn of the spawn loop; after the last one the broker starts.
SwitchSpawn ==
    /\ spc = "spawn"
    /\ spawned < n
    /\ npc' = [npc EXCEPT ![spawned] = "config"]
    /\ spawned' = spawned + 1
    /\ spc' = IF spawned + 1 = n THEN "broker" ELSE "spawn"
    /\ held' = [held EXCEPT ![spawned] = ChildHeld(spawned)]
    /\ UNCHANGED <<n, plan, hostVars, testnetResult, swStatus, state, pipeVars, status,
                   ctxVars, callVars, roundVars, parentVars, netVars, outbox>>

\* The switch reaps every node after the broker returned Ok.
SwitchReap ==
    /\ spc = "reap"
    /\ \A i \in Nodes : npc[i] = "exited"
    /\ LET result == ReapResult([i \in Nodes |-> status[i]])
       IN /\ swStatus' = Exited(network_switch_main(result))
          /\ swLog' = IF result = "Ok" THEN swLog
                      ELSE Append(swLog, NetworkMainFailed("some nodes failed"))
    /\ spc' = "exited"
    /\ UNCHANGED <<n, plan, base, config_nodes, all_node_configs, mounted,
                   testnetResult, spawned, state, pipeVars, npc, status,
                   ctxVars, callVars, roundVars, parentVars, netVars, held, outbox>>

\* network.wait() returns once the switch has exited: testnet() matches
\* the WaitStatus, do_main() drops it.
TestnetWait ==
    /\ ppc = "wait"
    /\ testnetResult = "none"
    /\ spc = "exited"
    /\ testnetResult' = testnet(swStatus)
    /\ cliExit' = main(do_main(newResult, swStatus))
    /\ ppc' = "done"
    /\ UNCHANGED <<n, plan, hostVars, switchVars, state, pipeVars, npc, status,
                   ctxVars, callVars, roundVars, newResult, procWrites, ready,
                   netVars, held, outbox>>

\* ------------------------------------------------------------ node process
\* do_network_node_main up to the call of `main`: stdio, names and
\* configure_network.  A failure returns before `main` is invoked.
NodeConfigure(i) ==
    /\ npc[i] = "config"
    /\ cpc[i] = 0
    /\ \/ /\ Configurable(Len(configure_network), BridgeExists)
          /\ npc' = [npc EXCEPT ![i] = "main"]
          /\ cpc' = [cpc EXCEPT ![i] = Len(configure_network)]
          /\ link' = [link EXCEPT ![i] = Configured(Len(configure_network))]
          /\ UNCHANGED <<status, held>>
       \/ /\ npc' = [npc EXCEPT ![i] = "exited"]
          /\ status' = [status EXCEPT ![i] = Exited(network_node_main("Err"))]
          /\ \E k \in 0..(Len(configure_network) - 1) :
                /\ Configurable(k, BridgeExists)
                /\ link' = [link EXCEPT ![i] = LinkGone(Configured(k))]
          /\ held' = [held EXCEPT ![i] = {}]
          /\ UNCHANGED cpc
    /\ UNCHANGED <<n, plan, hostVars, testnetResult, switchVars, state, pipeVars,
                   ctxVars, callVars, roundVars, parentVars, swOps, outbox>>

\* ----------------------------------------------------------------- Context
next_step(s) == s + 1

\* Context::step: `main` names the step it is about to run.
ContextStep(i) ==
    /\ npc[i] = "main"
    /\ calls[i] < MaxSteps
    /\ step_name[i] = None
    /\ step_name' = [step_name EXCEPT ![i] = StepName]
    /\ ret' = [ret EXCEPT ![i] = NoRet]
    /\ UNCHANGED <<n, plan, hostVars, testnetResult, switchVars, state, pipeVars, npc, status,
                   step, log, op, arg, calls, reps, roundVars,
                   parentVars, netVars, held, outbox>>

\* The first half of a primitive: the request is written and flushed, and
\* the node blocks in fill_buf.
Request(i, o, data, msg) ==
    /\ npc[i] = "main"
    /\ calls[i] < MaxSteps
    /\ reqPipe' = [reqPipe EXCEPT ![i] = Append(@, msg)]
    /\ npc' = [npc EXCEPT ![i] = "await"]
    /\ op' = [op EXCEPT ![i] = o]
    /\ arg' = [arg EXCEPT ![i] = data]
    /\ calls' = [calls EXCEPT ![i] = @ + 1]
    /\ ret' = [ret EXCEPT ![i] = NoRet]
    /\ UNCHANGED <<n, plan, hostVars, testnetResult, switchVars, state, repPipe, repClosed,
                   status, step_name, log, reps, roundVars,
                   parentVars, netVars, held, outbox>>

\* BroadcastOne::send, up to fill_buf.
Send(i, data) ==
    /\ Request(i, "send", data, MsgSend(data))
    /\ step' = [step EXCEPT ![i] = next_step(@)]

\* BroadcastOne::recv, up to fill_buf.
Recv(i) ==
    /\ Request(i, "recv", NoData, MsgReceive)
    /\ UNCHANGED step

\* BroadcastOne::wait, up to fill_buf.
Wait(i) ==
    /\ Request(i, "wait", NoData, MsgWait)
    /\ UNCHANGED step

\* Context::broadcast_all, up to fill_buf.
BroadcastAll(i, data) ==
    /\ Request(i, "all", data, MsgBroadcastAllSend(data))
    /\ step' = [step EXCEPT ![i] = next_step(@)]

send_result_no_response_ok(response) ==
    IF response.tag = "None" THEN OkUnit
    ELSE IF response.tag # "Wait" THEN Err("invalid response")
    ELSE OkUnit

\* What each primitive makes of the response it read (NoResponse: end of
\* stream).
send_result(response) ==
    IF response.tag = "None" THEN Err("no response")
    ELSE IF response.tag # "Wait" THEN Err("invalid response")
    ELSE OkUnit

recv_result_no_data(response) ==
    IF response.tag = "None" THEN Err("no response")
    ELSE IF response.tag = "Send" THEN OkData(NoData)
    ELSE Err("invalid response")

recv_result(response) ==
    IF response.tag = "None" THEN Err("no response")
    ELSE IF response.tag = "Send" THEN OkData(response.data)
    ELSE Err("invalid response")

wait_result_expects_send(response) ==
    IF response.tag = "None" THEN Err("no response")
    ELSE IF response.tag # "Send" THEN Err("invalid response")
    ELSE OkUnit

wait_result(response) ==
    IF response.tag = "None" THEN Err("no response")
    ELSE IF response.tag # "Wait" THEN Err("invalid response")
    ELSE OkUnit

broadcast_all_result_own(response) ==
    IF response.tag = "None" THEN Err("no response")
    ELSE IF response.tag = "BroadcastAllRecv" THEN OkAll(<<Head(response.data)>>)
    ELSE Err("invalid response")

broadcast_all_result(response) ==
    IF response.tag = "None" THEN Err("no response")
    ELSE IF response.tag = "BroadcastAllRecv" THEN OkAll(response.data)
    ELSE Err("invalid response")

Result_as_wait(o, response) == wait_result(response)

\* The match each primitive makes on the response it read.
Result(o, response) ==
    CASE o = "send" -> send_result(response)
      [] o = "recv" -> recv_result(response)
      [] o = "wait" -> wait_result(response)
      [] o = "all" -> broadcast_all_result(response)

\* The primitives that call print_step before they return Ok.
CallsPrintStep(o) == o \in {"send", "all"}

\* Context::print_step on the log and on step_name.
print_step_log(l, name) == IF name # None THEN Append(l, <<"ok", name>>) ELSE l
print_step_name(name) == None

\* Drop for Context.
drop_log(l, name) == IF name # None THEN Append(l, <<"failed", name>>) ELSE l

\* fill_buf returns: a reply is in the pipe, or the pipe is at end of stream.
Readable_always(i) == i \in NodeIds

\* End of stream needs every copy of the write end closed: the switch's
\* and those other nodes hold.
Readable(i) ==
    \/ repPipe[i] # <<>>
    \/ repClosed[i] /\ \A j \in NodeIds : <<i, "out_self">> \notin held[j]

\* The second half of a primitive: the response is read and matched.
Return(i) ==
    /\ npc[i] = "await"
    /\ Readable(i)
    /\ LET response == IF repPipe[i] # <<>> THEN Head(repPipe[i]) ELSE NoResponse
           result == Result(op[i], response)
           prints == CallsPrintStep(op[i]) /\ result[1] = "Ok"
       IN /\ ret' = [ret EXCEPT ![i] = result]
          /\ repPipe' = [repPipe EXCEPT ![i] = IF @ # <<>> THEN Tail(@) ELSE @]
          /\ reps' = [reps EXCEPT ![i] = IF response.tag # "None" THEN @ + 1 ELSE @]
          /\ log' = [log EXCEPT ![i] = IF prints THEN print_step_log(@, step_name[i]) ELSE @]
          /\ step_name' = [step_name EXCEPT ![i] = IF prints THEN print_step_name(@) ELSE @]
    /\ npc' = [npc EXCEPT ![i] = "main"]
    /\ op' = [op EXCEPT ![i] = "none"]
    /\ arg' = [arg EXCEPT ![i] = NoData]
    /\ IF outbox = <<>> /\ \A j \in NodeIds : repPipe'[j] = <<>>
       THEN /\ roundOp' = [j \in NodeIds |-> "none"]
            /\ roundArg' = [j \in NodeIds |-> NoData]
       ELSE UNCHANGED <<roundOp, roundArg>>
    /\ UNCHANGED <<n, plan, hostVars, testnetResult, switchVars, state, reqPipe, repClosed,
                   status, step, calls, round,
                   parentVars, netVars, held, outbox>>

\* The memory of an exited process is gone: its Context and the values of
\* its last call.
Gone(i) ==
    /\ step' = [step EXCEPT ![i] = 0]
    /\ step_name' = [step_name EXCEPT ![i] = None]
    /\ op' = [op EXCEPT ![i] = "none"]
    /\ arg' = [arg EXCEPT ![i] = NoData]
    /\ ret' = [ret EXCEPT ![i] = NoRet]
    /\ calls' = [calls EXCEPT ![i] = 0]
    /\ reps' = [reps EXCEPT ![i] = 0]
    /\ cpc' = [cpc EXCEPT ![i] = 0]
    /\ link' = [link EXCEPT ![i] = LinkGone(@)]
    /\ held' = [held EXCEPT ![i] = {}]

\* `main` returns Ok or Err: the Context is dropped and the node exits with
\* network_node_main's code.
MainReturn(i, result) ==
    /\ npc[i] = "main"
    /\ npc' = [npc EXCEPT ![i] = "exited"]
    /\ status' = [status EXCEPT ![i] = Exited(network_node_main(result))]
    /\ log' = [log EXCEPT ![i] = drop_log(@, step_name[i])]
    /\ Gone(i)
    /\ UNCHANGED <<n, plan, hostVars, testnetResult, switchVars, state, pipeVars, roundVars,
                   parentVars, swOps, outbox>>

\* `main` panics: the process ends with a non-zero code after unwinding
\* (the Context is dropped) or is aborted by a signal (it is not).
MainPanic(i) ==
    /\ npc[i] = "main"
    /\ npc' = [npc EXCEPT ![i] = "exited"]
    /\ \/ /\ status' = [status EXCEPT ![i] = Exited(101)]
          /\ log' = [log EXCEPT ![i] = drop_log(@, step_name[i])]
       \/ /\ status' = [status EXCEPT ![i] = Signaled]
          /\ UNCHANGED log
    /\ Gone(i)
    /\ UNCHANGED <<n, plan, hostVars, testnetResult, switchVars, state, pipeVars, roundVars,
                   parentVars, swOps, outbox>>

\* ------------------------------------------------------------------ broker
\* The broker's state machine, from spec.md 4.6 and 5.
Slot(tag, data) == [tag |-> tag, data |-> data]
IdleSlot == Slot("Idle", NoData)
DeadSlot == Slot("Dead", NoData)

\* Idle --- receives a request ---> the state the request asks for.
NodeState(msg) ==
    CASE msg.tag = "Send" -> Slot("OneSender", msg.data)
      [] msg.tag = "Receive" -> Slot("OneReceiver", NoData)
      [] msg.tag = "Wait" -> Slot("OneWaiter", NoData)
      [] msg.tag = "BroadcastAllSend" -> Slot("AllSender", msg.data)

Live(st) == {i \in BrokerSlots : st[i].tag # "Dead"}
OneSenders(st) == {i \in Live(st) : st[i].tag = "OneSender"}

\* A broadcast-one step completes with exactly one sender and every other
\* live node a receiver or a waiter, or with no sender and only waiters.
OneComplete(st) ==
    /\ Live(st) # {}
    /\ \A i \in Live(st) : st[i].tag \in {"OneSender", "OneReceiver", "OneWaiter"}
    /\ \/ Cardinality(OneSenders(st)) = 1
       \/ \A i \in Live(st) : st[i].tag = "OneWaiter"

AllComplete_some(st) ==
    /\ \E i \in Live(st) : st[i].tag = "AllSender"
    /\ \A i \in Live(st) : st[i].tag # "Idle"

\* A broadcast-all step completes when every live node is in AllSender.
AllComplete(st) ==
    /\ Live(st) # {}
    /\ \A i \in Live(st) : st[i].tag = "AllSender"

Complete(st) == OneComplete(st) \/ AllComplete(st)

\* More than one node entered OneSender in the same step.
MultipleSenders(st) == Cardinality(OneSenders(st)) > 1

Gather_live(st) ==
    LET senders == {k \in 1..n : k - 1 \in BrokerSlots /\ st[k - 1].tag = "AllSender"}
    IN [j \in 1..Cardinality(senders) |->
           st[(CHOOSE k \in senders : Cardinality({m \in senders : m < k}) = j - 1) - 1].data]

\* [p_0, ..., p_{N-1}], indexed by node position.
Gather(st) ==
    [k \in 1..n |-> IF k - 1 \in BrokerSlots /\ st[k - 1].tag = "AllSender"
                     THEN st[k - 1].data ELSE NoData]

\* The reply a completed step writes to live node i.
Reply(st, i) ==
    IF AllComplete(st) THEN MsgBroadcastAllRecv(Gather(st))
    ELSE IF st[i].tag = "OneReceiver"
         THEN MsgSend(st[CHOOSE j \in OneSenders(st) : TRUE].data)
         ELSE MsgWait

\* A node has died and the live nodes all wait for a reply that the step
\* they are in cannot produce.  The broker looks for this after every event,
\* so that a request it reads after the death it belongs with is failed too.
Unsatisfiable(st) ==
    /\ \E i \in BrokerSlots : st[i].tag = "Dead"
    /\ Live(st) # {}
    /\ \A i \in Live(st) : st[i].tag # "Idle"
    /\ ~Complete(st)

\* The reply pipes of the live nodes are open: no step of theirs has been
\* failed.
Answerable(st) == \A i \in Live(st) : ~repClosed[i]

\* The nodes of S in the order of their position.
RECURSIVE InOrder(_)
InOrder(S) ==
    IF S = {} THEN <<>>
    ELSE LET i == CHOOSE k \in S : \A j \in S : k <= j
         IN <<i>> \o InOrder(S \ {i})

\* The order in which the replies of a complete step are written: the
\* payload to all receivers first, then the replies to the sender and the
\* waiters.
WriteOrder(st) ==
    LET receivers == {i \in Live(st) : ~AllComplete(st) /\ st[i].tag = "OneReceiver"}
    IN InOrder(receivers) \o InOrder(Live(st) \ receivers)

Replies(st) ==
    [k \in 1..Len(WriteOrder(st)) |-> <<WriteOrder(st)[k], Reply(st, WriteOrder(st)[k])>>]

\* The replies written at once, as one step of the broker.
WriteAll(st) ==
    /\ repPipe' = [i \in NodeIds |->
           IF i \in Live(st) THEN Append(repPipe[i], Reply(st, i)) ELSE repPipe[i]]
    /\ UNCHANGED outbox

\* The replies left for the broker to write one at a time.
WriteLater(st) ==
    /\ outbox' = Replies(st)
    /\ UNCHANGED repPipe

\* After an event left the slot table st: a complete step is answered and
\* its nodes return to Idle; an unsatisfiable one has its reply pipes closed.
\* one_by_one: the replies are left for BrokerWrite.
SettleWith(st, one_by_one) ==
    IF Complete(st) /\ Answerable(st)
    THEN /\ state' = [i \in NodeIds |-> IF i \in Live(st) THEN IdleSlot ELSE st[i]]
         /\ IF one_by_one THEN WriteLater(st) ELSE WriteAll(st)
         /\ round' = round + 1
         /\ roundOp' = [i \in NodeIds |-> IF i \in Live(st) THEN op[i] ELSE "none"]
         /\ roundArg' = [i \in NodeIds |-> IF i \in Live(st) THEN arg[i] ELSE NoData]
         /\ UNCHANGED repClosed
    ELSE /\ state' = st
         /\ repClosed' = [i \in NodeIds |->
                repClosed[i] \/ (Unsatisfiable(st) /\ i \in Live(st))]
         /\ UNCHANGED <<repPipe, roundVars, outbox>>

Settle(st) == SettleWith(st, FALSE)

\* The broker reads a request of an Idle node.  A second sender in the step
\* is an error: the broker terminates all children and run() returns Err,
\* which do_network_switch_main propagates.
BrokerRecvWith(i, one_by_one) ==
    /\ spc = "broker"
    /\ outbox = <<>>
    /\ i \in BrokerSlots
    /\ state[i].tag = "Idle"
    /\ reqPipe[i] # <<>>
    /\ reqPipe' = [reqPipe EXCEPT ![i] = Tail(@)]
    /\ LET st == [state EXCEPT ![i] = NodeState(Head(reqPipe[i]))]
       IN IF MultipleSenders(st)
          THEN /\ state' = st
               /\ npc' = [j \in NodeIds |-> IF j \in Nodes THEN "exited" ELSE npc[j]]
               /\ status' = [j \in NodeIds |->
                      IF j \in Nodes /\ npc[j] # "exited" THEN Signaled ELSE status[j]]
               /\ step' = [j \in NodeIds |-> 0]
               /\ step_name' = [j \in NodeIds |-> None]
               /\ op' = [j \in NodeIds |-> "none"]
               /\ arg' = [j \in NodeIds |-> NoData]
               /\ ret' = [j \in NodeIds |-> NoRet]
               /\ calls' = [j \in NodeIds |-> 0]
               /\ reps' = [j \in NodeIds |-> 0]
               /\ cpc' = [j \in NodeIds |-> 0]
               /\ link' = [j \in NodeIds |-> LinkGone(link[j])]
               /\ held' = [j \in NodeIds |-> {}]
               /\ spc' = "exited"
               /\ swStatus' = Exited(network_switch_main("Err"))
               /\ swLog' = Append(swLog, NetworkMainFailed("multiple senders"))
               /\ UNCHANGED <<repPipe, repClosed, roundVars, log, outbox>>
          ELSE /\ SettleWith(st, one_by_one)
               /\ UNCHANGED <<npc, status, spc, swStatus, ctxVars, callVars,
                              cpc, link, held, swLog>>
    /\ UNCHANGED <<n, plan, base, config_nodes, all_node_configs, mounted,
                   testnetResult, spawned, parentVars, swOps>>

BrokerRecv(i) == BrokerRecvWith(i, FALSE)

\* The pidfd of an exited node fires: its slot becomes Dead.  When all
\* nodes are Dead the broker returns.
BrokerDeadWith(i, one_by_one) ==
    /\ spc = "broker"
    /\ outbox = <<>>
    /\ i \in BrokerSlots
    /\ npc[i] = "exited"
    /\ state[i].tag # "Dead"
    /\ LET st == [state EXCEPT ![i] = DeadSlot]
       IN /\ SettleWith(st, one_by_one)
          /\ spc' = IF Live(st) = {} THEN "reap" ELSE spc
    /\ UNCHANGED <<n, plan, hostVars, testnetResult, swStatus, spawned, reqPipe, npc, status,
                   ctxVars, callVars, parentVars, netVars, held>>

BrokerDead(i) == BrokerDeadWith(i, FALSE)

\* -------------------------------------------------------------------- Next
Next ==
    \/ NetworkNew
    \/ SwitchSetup
    \/ SwitchSpawn
    \/ SwitchReap
    \/ TestnetWait
    \/ \E i \in Nodes : NodeConfigure(i)
    \/ \E i \in Nodes : ContextStep(i)
    \/ \E i \in Nodes, data \in Payloads : Send(i, data)
    \/ \E i \in Nodes : Recv(i)
    \/ \E i \in Nodes : Wait(i)
    \/ \E i \in Nodes, data \in Payloads : BroadcastAll(i, data)
    \/ \E i \in Nodes : Return(i)
    \/ \E i \in Nodes, result \in {"Ok", "Err"} : MainReturn(i, result)
    \/ \E i \in Nodes : MainPanic(i)
    \/ \E i \in Nodes : BrokerRecv(i)
    \/ \E i \in Nodes : BrokerDead(i)

Spec == Init /\ [][Next]_vars

\* --------------------------------------------------------------- scheduling
\* Every process is scheduled: the parent, the switch and its broker loop,
\* and each node, whose `main` goes on until it returns or panics.
MainStep(i) ==
    \/ ContextStep(i)
    \/ \E data \in Payloads : Send(i, data)
    \/ Recv(i)
    \/ Wait(i)
    \/ \E data \in Payloads : BroadcastAll(i, data)
    \/ \E result \in {"Ok", "Err"} : MainReturn(i, result)
    \/ MainPanic(i)

Fairness ==
    /\ WF_vars(NetworkNew)
    /\ WF_vars(SwitchSetup)
    /\ WF_vars(SwitchSpawn)
    /\ WF_vars(SwitchReap)
    /\ WF_vars(TestnetWait)
    /\ \A i \in NodeIds :
          /\ WF_vars(NodeConfigure(i))
          /\ WF_vars(MainStep(i))
          /\ WF_vars(Return(i))
          /\ WF_vars(BrokerRecv(i))
          /\ WF_vars(BrokerDead(i))

\* Networks of at most MaxFairNodes nodes, every process scheduled.
MaxFairNodes == 2

InitFair == Start /\ plan = <<>> /\ n <= MaxFairNodes /\ DefaultNodes

FairSpec == InitFair /\ [][Next]_vars /\ Fairness

\* ---------------------------------------------- the broker's writes, one by one
\* The broker is one thread: it writes the replies of a complete step one
\* after the other, and reads no request and sees no exit until the last is
\* written, while the nodes run on.
BrokerWrite ==
    /\ spc = "broker"
    /\ outbox # <<>>
    /\ repPipe' = [repPipe EXCEPT ![Head(outbox)[1]] = Append(@, Head(outbox)[2])]
    /\ outbox' = Tail(outbox)
    /\ UNCHANGED <<n, plan, hostVars, testnetResult, switchVars, state, reqPipe, repClosed, npc,
                   status, ctxVars, callVars, roundVars, parentVars, netVars, held>>

WritesNext ==
    \/ NetworkNew
    \/ SwitchSetup
    \/ SwitchSpawn
    \/ SwitchReap
    \/ TestnetWait
    \/ \E i \in Nodes : NodeConfigure(i)
    \/ \E i \in Nodes : ContextStep(i)
    \/ \E i \in Nodes, data \in Payloads : Send(i, data)
    \/ \E i \in Nodes : Recv(i)
    \/ \E i \in Nodes : Wait(i)
    \/ \E i \in Nodes, data \in Payloads : BroadcastAll(i, data)
    \/ \E i \in Nodes : Return(i)
    \/ \E i \in Nodes, result \in {"Ok", "Err"} : MainReturn(i, result)
    \/ \E i \in Nodes : MainPanic(i)
    \/ \E i \in Nodes : BrokerRecvWith(i, TRUE)
    \/ \E i \in Nodes : BrokerDeadWith(i, TRUE)
    \/ BrokerWrite

InitWrites == Start /\ plan = <<>> /\ DefaultNodes

WritesSpec == InitWrites /\ [][WritesNext]_vars

\* ------------------------------------------------- the bootstrap, by steps
\* Network::new, the switch up to its spawn loop and configure_network,
\* one system call or netlink operation at a time, as the parent, the
\* switch and the nodes interleave them.

\* Network::new returns Err through a `?`: its locals are dropped.  The
\* sender end of the ready channel closes; the switch, whose Process handle
\* is dropped with it, is terminated or goes on running.
NewFails ==
    /\ newResult' = "Err"
    /\ testnetResult' = "Err"
    /\ cliExit' = main(do_main("Err", swStatus))
    /\ ppc' = "done"
    /\ ready' = "closed"
    /\ \/ UNCHANGED <<spc, swStatus>>
       \/ /\ spc # "exited"
          /\ spc' = "exited"
          /\ swStatus' = Signaled

\* Process::spawn of the switch.
ParentSpawn ==
    /\ ppc = "new"
    /\ \/ /\ ppc' = "write"
          /\ spc' = "setup"
          /\ UNCHANGED <<newResult, testnetResult, cliExit>>
       \/ /\ newResult' = "Err"
          /\ testnetResult' = "Err"
          /\ cliExit' = main(do_main("Err", swStatus))
          /\ ppc' = "done"
          /\ UNCHANGED spc
    /\ UNCHANGED <<n, plan, hostVars, swStatus, spawned, state, pipeVars, npc, status,
                   ctxVars, callVars, roundVars, procWrites, ready, netVars,
                   held, outbox>>

\* std::fs::write of the next file of /proc/<pid>.
ParentWrite ==
    /\ ppc = "write"
    /\ \/ /\ procWrites' = Append(procWrites, ProcFiles[Len(procWrites) + 1])
          /\ ppc' = IF Len(procWrites) + 1 = Len(ProcFiles) THEN "close" ELSE "write"
          /\ UNCHANGED <<newResult, testnetResult, cliExit, ready, spc, swStatus>>
       \/ /\ NewFails
          /\ UNCHANGED procWrites
    /\ UNCHANGED <<n, plan, hostVars, spawned, state, pipeVars, npc, status,
                   ctxVars, callVars, roundVars, netVars, held, outbox>>

\* sender.close() and Ok(Self { main }).
ParentClose ==
    /\ ppc = "close"
    /\ ready' = "closed"
    /\ newResult' = "Ok"
    /\ ppc' = "wait"
    /\ UNCHANGED <<n, plan, hostVars, testnetResult, cliExit, procWrites, switchVars, state,
                   pipeVars, npc, status, ctxVars, callVars, roundVars, netVars,
                   held, outbox>>

\* The switch returns the error e: network_switch_main logs it and the
\* switch exits with its code.
SwitchFailsWith(e) ==
    /\ spc' = "exited"
    /\ swStatus' = Exited(network_switch_main("Err"))
    /\ swLog' = Append(swLog, NetworkMainFailed(e))

SwitchFails == SwitchFailsWith("error")

\* set_process_name and sethostname.
SwitchName ==
    /\ spc = "setup"
    /\ \/ spc' = "ready" /\ UNCHANGED <<swStatus, swLog>>
       \/ SwitchFails
    /\ UNCHANGED <<n, plan, base, config_nodes, all_node_configs, mounted,
                   testnetResult, spawned, state, pipeVars, npc, status,
                   ctxVars, callVars, roundVars, parentVars, netVars, held, outbox>>

\* receiver.wait_until_closed().
SwitchReady ==
    /\ spc = "ready"
    /\ ready = "closed"
    /\ spc' = "netlink"
    /\ UNCHANGED <<n, plan, hostVars, testnetResult, swStatus, spawned, state, pipeVars, npc,
                   status, ctxVars, callVars, roundVars, parentVars, netVars, held,
                   outbox>>

\* Netlink::new and new_bridge.
SwitchNetlink ==
    /\ spc = "netlink"
    /\ \/ /\ swOps' = Append(swOps, SwitchOps[Len(swOps) + 1])
          /\ spc' = IF Len(swOps) + 1 = Len(SwitchOps) THEN "nodes" ELSE "netlink"
          /\ UNCHANGED <<swStatus, swLog>>
       \/ /\ SwitchFails
          /\ UNCHANGED swOps
    /\ UNCHANGED <<n, plan, base, config_nodes, all_node_configs, mounted,
                   testnetResult, spawned, state, pipeVars, npc, status,
                   ctxVars, callVars, roundVars, parentVars, cpc, link, held, outbox>>

\* The first node whose turn returns the error.
FirstExhausted == CHOOSE k \in Exhausted : \A j \in Exhausted : k <= j

\* The node list with its default names and addresses, and the hosts file:
\* the loop over config.nodes, TempDir::new and the write of `hosts`.
SwitchNodes ==
    /\ spc = "nodes"
    /\ IF Exhausted # {}
       THEN /\ all_node_configs' = Normalised(FirstExhausted)
            /\ SwitchFailsWith("exhausted available IP adddress range")
       ELSE /\ all_node_configs' = Normalised(n)
            /\ \/ spc' = "mount" /\ UNCHANGED <<swStatus, swLog>>
               \/ SwitchFails
    /\ UNCHANGED <<n, plan, base, config_nodes, mounted,
                   testnetResult, spawned, state, pipeVars, npc, status,
                   ctxVars, callVars, roundVars, parentVars, netVars, held, outbox>>

mount_or_fail(result) == result

\* `if let Err(e) = mount(..)`: what the switch returns after the bind
\* mount over /etc/hosts returned result.
mount_or_warn(result) == "Ok"

\* The bind mount of `hosts` over /etc/hosts: an error is logged as a
\* warning.
SwitchMount ==
    /\ spc = "mount"
    /\ \E result \in {"Ok", "Err"} :
          /\ mounted' = IF result = "Ok" THEN "ok" ELSE "failed"
          /\ IF mount_or_warn(result) = "Ok"
             THEN /\ spc' = "spawn"
                  /\ swLog' = IF result = "Ok" THEN swLog ELSE Append(swLog, MountWarning)
                  /\ UNCHANGED swStatus
             ELSE SwitchFails
    /\ UNCHANGED <<n, plan, base, config_nodes, all_node_configs,
                   testnetResult, spawned, state, pipeVars, npc, status,
                   ctxVars, callVars, roundVars, parentVars, netVars, held, outbox>>

\* pipe() or Process::spawn fails in the spawn loop: the switch returns the
\* error, and the nodes it has spawned go on without it.
SwitchSpawnFails ==
    /\ spc = "spawn"
    /\ spawned < n
    /\ SwitchFails
    /\ UNCHANGED <<n, plan, base, config_nodes, all_node_configs, mounted,
                   testnetResult, spawned, state, pipeVars, npc, status,
                   ctxVars, callVars, roundVars, parentVars, netVars, held, outbox>>

\* The next step of configure_network on node i.  An operation the kernel
\* does not acknowledge returns the error, and so may any other; `main` is
\* invoked after the last one.
ConfigureStep(i) ==
    /\ npc[i] = "config"
    /\ cpc[i] < Len(configure_network)
    /\ LET o == configure_network[cpc[i] + 1]
       IN \/ /\ NetlinkOk(o, link[i], BridgeExists)
             /\ link' = [link EXCEPT ![i] = NetlinkDo(o, @)]
             /\ cpc' = [cpc EXCEPT ![i] = @ + 1]
             /\ npc' = [npc EXCEPT ![i] =
                    IF cpc[i] + 1 = Len(configure_network) THEN "main" ELSE @]
             /\ UNCHANGED <<status, held>>
          \/ /\ npc' = [npc EXCEPT ![i] = "exited"]
             /\ status' = [status EXCEPT ![i] = Exited(network_node_main("Err"))]
             /\ link' = [link EXCEPT ![i] = LinkGone(@)]
             /\ cpc' = [cpc EXCEPT ![i] = 0]
             /\ held' = [held EXCEPT ![i] = {}]
    /\ UNCHANGED <<n, plan, hostVars, testnetResult, switchVars, state, pipeVars,
                   ctxVars, callVars, roundVars, parentVars, swOps, outbox>>

\* `main` calls no step primitive here: it returns or panics.
BootNext ==
    \/ ParentSpawn
    \/ ParentWrite
    \/ ParentClose
    \/ SwitchName
    \/ SwitchReady
    \/ SwitchNetlink
    \/ SwitchNodes
    \/ SwitchMount
    \/ SwitchSpawn
    \/ SwitchSpawnFails
    \/ SwitchReap
    \/ TestnetWait
    \/ \E i \in Nodes : ConfigureStep(i)
    \/ \E i \in Nodes, result \in {"Ok", "Err"} : MainReturn(i, result)
    \/ \E i \in Nodes : MainPanic(i)
    \/ \E i \in Nodes : BrokerDead(i)

InitBoot == Start /\ plan = <<>> /\ DefaultNodes

BootSpec == InitBoot /\ [][BootNext]_vars

\* ------------------------------------------------- the node list, by turns
\* The loop over config.nodes one turn at a time, for any node list: names
\* and addresses the caller gave or left out, at the head of config.nodes or
\* where the hosts of the network run out.  The base nodes ahead have had
\* their turns: none of them returns the error while base =< HostCount.
NodeNames == {"", "node"}
NodeIfaddrs ==
    {IpNet(Ipv4Addr(0, 0, 0, 0), 0), IpNet(Ipv4Addr(10, 84, 0, 1), 16),
     IpNet(Ipv4Addr(10, 0, 0, 7), 24)}
NodeConfigs == {NodeConfig(name, ifaddr) : name \in NodeNames, ifaddr \in NodeIfaddrs}
Bases == {0, HostCount - 2}

\* One turn of the loop, for the node after those of all_node_configs.
SwitchNormalise ==
    /\ spc = "nodes"
    /\ Len(all_node_configs) < n
    /\ LET k == Len(all_node_configs)
       IN IF Exhausts(Position(k), config_nodes[k])
          THEN /\ SwitchFailsWith("exhausted available IP adddress range")
               /\ UNCHANGED all_node_configs
          ELSE /\ all_node_configs' =
                      Append(all_node_configs, normalise(Position(k), config_nodes[k]))
               /\ UNCHANGED <<spc, swStatus, swLog>>
    /\ UNCHANGED <<n, plan, base, config_nodes, mounted,
                   testnetResult, spawned, state, pipeVars, npc, status,
                   ctxVars, callVars, roundVars, parentVars, netVars, held, outbox>>

\* TempDir::new and the write of `hosts`, after the last turn.
SwitchHosts ==
    /\ spc = "nodes"
    /\ Len(all_node_configs) = n
    /\ \/ spc' = "mount" /\ UNCHANGED <<swStatus, swLog>>
       \/ SwitchFails
    /\ UNCHANGED <<n, plan, base, config_nodes, all_node_configs, mounted,
                   testnetResult, spawned, state, pipeVars, npc, status,
                   ctxVars, callVars, roundVars, parentVars, netVars, held, outbox>>

NormNext ==
    \/ NetworkNew
    \/ SwitchName
    \/ SwitchReady
    \/ SwitchNetlink
    \/ SwitchNormalise
    \/ SwitchHosts
    \/ SwitchMount
    \/ TestnetWait

InitNorm ==
    /\ Start
    /\ plan = <<>>
    /\ base \in Bases
    /\ config_nodes \in [NodeIds -> NodeConfigs]
    /\ \A i \in NodeIds \ Nodes : config_nodes[i] = NodeConfigDefault

NormSpec == InitNorm /\ [][NormNext]_vars

\* ------------------------------------------------- the client, any reply
\* The node-side client against any writer of its reply pipe: whatever
\* holds the other end reads the request, then writes any IpcMessage or
\* closes the pipe.
MaxClientNodes == 2

\* The messages with at most one payload, and those with a vector of them.
Messages ==
    {MsgSend(data) : data \in Payloads}
        \cup {MsgReceive, MsgWait}
        \cup {MsgBroadcastAllSend(data) : data \in Payloads}
VectorMessages == {MsgBroadcastAllRecv(payload) : payload \in [1..n -> Payloads]}

PeerReplies(i, msg) ==
    /\ spc = "broker"
    /\ reqPipe[i] # <<>>
    /\ ~repClosed[i]
    /\ reqPipe' = [reqPipe EXCEPT ![i] = Tail(@)]
    /\ repPipe' = [repPipe EXCEPT ![i] = Append(@, msg)]
    /\ UNCHANGED <<n, plan, hostVars, testnetResult, switchVars, state, repClosed, npc,
                   status, ctxVars, callVars, roundVars, parentVars, netVars, held,
                   outbox>>

PeerCloses(i) ==
    /\ spc = "broker"
    /\ reqPipe[i] # <<>>
    /\ ~repClosed[i]
    /\ reqPipe' = [reqPipe EXCEPT ![i] = Tail(@)]
    /\ repClosed' = [repClosed EXCEPT ![i] = TRUE]
    /\ UNCHANGED <<n, plan, hostVars, testnetResult, switchVars, state, repPipe, npc,
                   status, ctxVars, callVars, roundVars, parentVars, netVars, held,
                   outbox>>

ClientNext ==
    \/ NetworkNew
    \/ SwitchSetup
    \/ SwitchSpawn
    \/ \E i \in Nodes : NodeConfigure(i)
    \/ \E i \in Nodes : ContextStep(i)
    \/ \E i \in Nodes, data \in Payloads : Send(i, data)
    \/ \E i \in Nodes : Recv(i)
    \/ \E i \in Nodes : Wait(i)
    \/ \E i \in Nodes, data \in Payloads : BroadcastAll(i, data)
    \/ \E i \in Nodes : Return(i)
    \/ \E i \in Nodes, result \in {"Ok", "Err"} : MainReturn(i, result)
    \/ \E i \in Nodes : MainPanic(i)
    \/ \E i \in Nodes, msg \in Messages : PeerReplies(i, msg)
    \/ \E i \in Nodes, msg \in VectorMessages : PeerReplies(i, msg)
    \/ \E i \in Nodes : PeerCloses(i)

InitClient == Start /\ plan = <<>> /\ DefaultNodes /\ n <= MaxClientNodes

ClientSpec == InitClient /\ [][ClientNext]_vars

\* ------------------------------------------------- a well-behaved `main`
\* A step in which the nodes use the primitives consistently: all call
\* broadcast_all, or one sends and the others receive or wait, or all wait.
Consistent(r) ==
    \/ \A i \in Nodes : r[i] = "all"
    \/ /\ \A i \in Nodes : r[i] \in {"send", "recv", "wait"}
       /\ Cardinality({i \in Nodes : r[i] = "send"}) = 1
    \/ \A i \in Nodes : r[i] = "wait"

Rounds == {r \in [Nodes -> {"send", "recv", "wait", "all"}] : Consistent(r)}
Plans == UNION {[1..k -> Rounds] : k \in 0..MaxSteps}

Planned(i, o) == calls[i] < Len(plan) /\ plan[calls[i] + 1][i] = o
PlanDone(i) == calls[i] = Len(plan)

\* The setup succeeds, and `main` runs the steps of the plan, ignores no
\* error and returns Ok.
NextOk ==
    \/ NetworkNew /\ spc' = "setup"
    \/ SwitchSetup /\ spc' = "spawn"
    \/ SwitchSpawn
    \/ SwitchReap
    \/ TestnetWait
    \/ \E i \in Nodes : NodeConfigure(i) /\ npc'[i] = "main"
    \/ \E i \in Nodes : ContextStep(i) /\ ~PlanDone(i)
    \/ \E i \in Nodes, data \in Payloads : Send(i, data) /\ Planned(i, "send")
    \/ \E i \in Nodes : Recv(i) /\ Planned(i, "recv")
    \/ \E i \in Nodes : Wait(i) /\ Planned(i, "wait")
    \/ \E i \in Nodes, data \in Payloads : BroadcastAll(i, data) /\ Planned(i, "all")
    \/ \E i \in Nodes : Return(i)
    \/ \E i \in Nodes : MainReturn(i, "Ok") /\ PlanDone(i) /\ ret[i][1] # "Err"
    \/ \E i \in Nodes : BrokerRecv(i)
    \/ \E i \in Nodes : BrokerDead(i)

InitOk == Start /\ plan \in Plans /\ DefaultNodes

SpecOk == InitOk /\ [][NextOk]_vars /\ WF_vars(NextOk)

\* ------------------------------------------------------------------ claims
\* Node i reads a reply in this step.
ReadsReply(i) == reps'[i] = reps[i] + 1

\* The step whose replies are being read had exactly one sender, and every
\* other node of the network called recv.
OneSendOthersRecv ==
    /\ n >= 2
    /\ \E j \in Nodes :
          /\ roundOp[j] = "send"
          /\ \A k \in Nodes \ {j} : roundOp[k] = "recv"

RoundSender == CHOOSE j \in Nodes : roundOp[j] = "send"

\* C1: in a step where exactly one node calls broadcast_one().send(p) and
\* every other node calls broadcast_one().recv(), every receiver's recv
\* returns exactly p and the sender's send returns Ok.
C1_OneToAll ==
    [][\A i \in Nodes :
          (ReadsReply(i) /\ OneSendOthersRecv) =>
              ret'[i] = IF i = RoundSender THEN OkUnit
                        ELSE OkData(roundArg[RoundSender])]_vars

C1_Witness ==
    /\ n = 3
    /\ OneSendOthersRecv
    /\ roundArg[RoundSender] = 2
    /\ ret[RoundSender] = OkUnit
    /\ \E k \in Nodes \ {RoundSender} : ret[k] = OkData(2)
    /\ \E k \in Nodes \ {RoundSender} : npc[k] = "await"

\* Every node of the network called broadcast_all in the step whose replies
\* are being read.
EveryoneBroadcastAll == \A k \in Nodes : roundOp[k] = "all"

\* C2: when every node i calls broadcast_all(p_i) in the same step, every
\* call returns the vector [p_0, ..., p_{N-1}], position i holding the
\* payload of node i.
C2_AllToAll ==
    [][\A i \in Nodes :
          (ReadsReply(i) /\ n >= 2 /\ EveryoneBroadcastAll) =>
              ret'[i] = OkAll([k \in 1..n |-> roundArg[k - 1]])]_vars

C2_Witness ==
    /\ n = 3
    /\ EveryoneBroadcastAll
    /\ roundArg[0] = 2 /\ roundArg[1] = 1 /\ roundArg[2] = 2
    /\ ret[0] = OkAll(<<2, 1, 2>>)
    /\ ret[1] = OkAll(<<2, 1, 2>>)
    /\ npc[2] = "await"

\* A reply is written to node i in this step.
WritesReply(i) == Len(repPipe'[i]) > Len(repPipe[i])

IsLive(j) == npc[j] # "exited"

\* C3: no node receives a reply for a step before every live node has
\* submitted its request for that step, and no BroadcastAllRecv is written
\* while some live node has not submitted BroadcastAllSend.
C3_Barrier ==
    [][\A i \in Nodes :
          /\ (WritesReply(i) \/ ReadsReply(i)) =>
                \A j \in Nodes : IsLive(j) => calls[j] >= reps[i] + 1
          /\ (WritesReply(i) /\ repPipe'[i][Len(repPipe'[i])].tag = "BroadcastAllRecv") =>
                \A j \in Nodes : IsLive(j) => (npc[j] = "await" /\ op[j] = "all")]_vars

C3_Witness ==
    /\ n = 3
    /\ \E i, j, k \in Nodes :
          /\ npc[k] = "exited"
          /\ reps[i] = 1 /\ ret[i][1] = "Ok"
          /\ npc[j] = "await" /\ roundOp[j] = "all" /\ repPipe[j] # <<>>

\* The broker completes a broadcast-one step that has a sender.
CompletesOneStep ==
    /\ round' = round + 1
    /\ \E j \in Nodes : roundOp'[j] = "send"

NewSender == CHOOSE j \in Nodes : roundOp'[j] = "send"

\* C4: a completed broadcast-one step with sender payload p replies Send(p)
\* to every receiver and Wait to the sender and to every waiter, and leaves
\* their slots Idle; the receivers return p, the sender and the waiters Ok.
C4_OneStepReplies ==
    [][/\ CompletesOneStep =>
            \A i \in Nodes : roundOp'[i] # "none" =>
                /\ state'[i].tag = "Idle"
                /\ repPipe'[i] = Append(repPipe[i],
                        IF roundOp'[i] = "recv" THEN MsgSend(roundArg'[NewSender])
                        ELSE MsgWait)
       /\ \A i \in Nodes :
            (ReadsReply(i) /\ \E j \in Nodes : roundOp[j] = "send") =>
                ret'[i] = IF roundOp[i] = "recv" THEN OkData(roundArg[RoundSender])
                          ELSE OkUnit]_vars

C4_Witness ==
    /\ n = 3
    /\ round = 1
    /\ \A i \in Nodes : calls[i] = 1 /\ npc[i] = "main" /\ state[i].tag = "Idle"
    /\ step[0] = 1 /\ ret[0] = OkUnit
    /\ step[1] = 0 /\ ret[1] = OkData(2)
    /\ step[2] = 0 /\ ret[2] = OkUnit

AllExitedZero == \A i \in Nodes : status[i] = Exited(0)

PendingOps == {op[j] : j \in {k \in Nodes : IsLive(k)}}

CannotComplete ==
    /\ \E d \in Nodes : npc[d] = "exited" /\ status[d] # Exited(0)
    /\ \A j \in Nodes : IsLive(j) => (npc[j] = "await" /\ repPipe[j] = <<>>)
    /\ Cardinality({j \in Nodes : IsLive(j) /\ op[j] = "send"}) =< 1
    /\ PendingOps # {"all"}
    /\ ~(PendingOps \subseteq {"send", "recv", "wait"}
          /\ (\E j \in Nodes : IsLive(j) /\ op[j] = "send"))
    /\ PendingOps # {"wait"}

BlockedForGood(i) == i \in Nodes /\ npc[i] = "await" /\ CannotComplete

C7_Terminates ==
    <>(/\ testnetResult = "Ok"
       /\ swStatus = Exited(0)
       /\ \A i \in Nodes : state[i].tag = "Dead" /\ status[i] = Exited(0))

C7_Witness ==
    /\ n = 2
    /\ Len(plan) = 2
    /\ plan[1][0] = "send" /\ plan[1][1] = "recv"
    /\ plan[2][0] = "all"
    /\ round = 2
    /\ testnetResult = "Ok"

\* C8: when more than one node enters OneSender in the same step, the
\* children are all terminated, no reply is written for the step and the
\* harness ends with a failure.
C8_MultipleSenders ==
    [][MultipleSenders(state') =>
          /\ \A i \in Nodes : npc'[i] = "exited"
          /\ repPipe' = repPipe
          /\ swStatus' = Exited(1)
          /\ testnetResult' # "Ok"]_vars

C8_Witness ==
    /\ MultipleSenders(state)
    /\ testnetResult = "Err"
    /\ \E i \in Nodes : status[i] = Signaled

\* C9: every step primitive advances the step counter of the calling node
\* by one, so the counter equals the number of primitives the node called.
C9_StepCounter ==
    \A i \in Nodes : IsLive(i) => step[i] = calls[i]

\* C10: a primitive that returns Ok while a step name is set logs
\* `step "<name>": ok` and clears the name, and `failed` is logged on drop
\* only when the named step did not complete successfully.
C10_StepDiagnostics ==
    [][\A i \in Nodes :
          /\ (npc[i] = "await" /\ npc'[i] = "main" /\ ret'[i][1] = "Ok"
                /\ step_name[i] # None) =>
                (log'[i] = Append(log[i], <<"ok", step_name[i]>>) /\ step_name'[i] = None)
          /\ (log'[i] # log[i] /\ log'[i][Len(log'[i])][1] = "failed") =>
                ret[i][1] # "Ok"]_vars

\* The switch returned an error before it had spawned every node: the
\* setup of the network failed.
SetupFailed == spc = "exited" /\ spawned < n

\* C11: every setup failure is reported as an Err from Network::new;
\* Network::new never returns Ok for a network whose setup failed.
C11_SetupFailure ==
    (newResult # "none" /\ SetupFailed) => newResult = "Err"

\* C12: the command-line front end exits with success when every node
\* exited 0, and with a failure otherwise.
C12_CliExit ==
    cliExit # "none" => (cliExit = "SUCCESS" <=> AllExitedZero)

\* At least one live node is in a One* state and at least one in AllSender.
MixedMode(st) ==
    \E i, j \in Nodes :
        /\ st[i].tag \in {"OneSender", "OneReceiver", "OneWaiter"}
        /\ st[j].tag = "AllSender"

NoDeath == \A i \in Nodes : state'[i].tag = "Dead" => state[i].tag = "Dead"

\* C13: while a live node is in a One* state and a live node is in
\* AllSender, the broker writes no reply to any node: none is pending for a
\* node it holds a request of, and none is written by an event that leaves
\* the step mixed.
C13_MixedMode ==
    [][/\ MixedMode(state) =>
            \A i \in Nodes : state[i].tag \notin {"Idle", "Dead"} => repPipe[i] = <<>>
       /\ ((MixedMode(state) /\ NoDeath) \/ MixedMode(state')) =>
            \A i \in Nodes : ~WritesReply(i)]_vars

C13_Witness ==
    /\ n = 3
    /\ state[0].tag = "OneSender"
    /\ state[1].tag = "AllSender"
    /\ state[2].tag = "OneReceiver"
    /\ \A i \in Nodes : npc[i] = "await" /\ repPipe[i] = <<>>

\* Every node the broker has not seen die is blocked in wait(), its request
\* read and not answered, its reply pipe open.
WaitersStuck ==
    /\ \E i \in Nodes : state[i].tag # "Dead"
    /\ \A i \in Nodes :
          \/ state[i].tag = "Dead"
          \/ /\ npc[i] = "await" /\ op[i] = "wait"
             /\ state[i].tag # "Idle"
             /\ ~repClosed[i]

\* C14: a step without a sender in which every live node called wait()
\* completes, and every waiter returns Ok; a step without a sender in which
\* some node called recv() does not complete.
C14_OnlyWaiters ==
    [][/\ ~WaitersStuck'
       /\ \A i \in Nodes :
            (ReadsReply(i) /\ \A j \in Nodes : roundOp[j] \in {"wait", "none"}) =>
                ret'[i] = OkUnit
       /\ (round' = round + 1 /\ \E i \in Nodes : roundOp'[i] = "recv") =>
            \E j \in Nodes : roundOp'[j] = "send"]_vars

C14_Witness ==
    /\ n = 3
    /\ round = 1
    /\ \A i \in Nodes : roundOp[i] = "wait" /\ calls[i] = 1
    /\ ret[0] = OkUnit /\ ret[1] = OkUnit
    /\ npc[2] = "await" /\ repPipe[2] = <<MsgWait>>

\* The broker has yet to write a reply to node j.
Unwritten(j) == \E k \in 1..Len(outbox) : outbox[k][1] = j

\* send() on node i returns Ok in this step.
SendReturnsOk(i) ==
    /\ npc[i] = "await" /\ op[i] = "send"
    /\ npc'[i] = "main" /\ ret'[i] = OkUnit

\* C15: in a broadcast-one step the broker writes the payload to every
\* receiver before it writes a Wait reply to the sender or to a waiter, so
\* send() returns only after the payload has been written to every receiver.
C15_PayloadFirst ==
    [][\A i \in Nodes :
          /\ (WritesReply(i) /\ repPipe'[i][Len(repPipe'[i])].tag = "Wait") =>
                \A j \in Nodes : roundOp[j] = "recv" => ~Unwritten(j)
          /\ SendReturnsOk(i) =>
                /\ roundOp[i] = "send"
                /\ \A j \in Nodes : roundOp[j] = "recv" => ~Unwritten(j)]_vars

C15_Witness ==
    /\ n = 3
    /\ roundOp[0] = "recv" /\ roundOp[1] = "send" /\ roundOp[2] = "recv"
    /\ ret[1] = OkUnit /\ npc[1] = "main"
    /\ ret[0] = OkData(2)
    /\ npc[2] = "await" /\ repPipe[2] = <<MsgSend(2)>>

\* The requests of node i the broker has not answered.
Outstanding(i) ==
    Len(reqPipe[i]) + (IF state[i].tag \in {"Idle", "Dead"} THEN 0 ELSE 1)

\* The broker reads a request of node i in this step.
BrokerReads(i) == Len(reqPipe'[i]) < Len(reqPipe[i])

AllWritten == procWrites = <<"uid_map", "setgroups", "gid_map">>

\* C17: in every execution of Network::new, also when a write fails, the
\* parent writes uid_map, then setgroups, then gid_map, and only then
\* releases the ready channel; the switch performs no netlink operation
\* before all three writes have completed.
C17_BootstrapOrder ==
    /\ procWrites = SubSeq(<<"uid_map", "setgroups", "gid_map">>, 1, Len(procWrites))
    /\ ready = "closed" => AllWritten
    /\ swOps # <<>> => AllWritten

\* `main` is invoked on node i in this step.
MainStarts(i) == npc[i] = "config" /\ npc'[i] = "main"

\* C18: veth<i> is in node i's namespace before node i looks up its index,
\* brings it up and assigns ifaddr; `main` is invoked only after lo and
\* veth<i> are up and ifaddr is assigned, and a node whose configuration
\* fails exits 1 without invoking `main`.
C18_ConfigureOrder ==
    [][\A i \in Nodes :
          /\ (link'[i].index /\ ~link[i].index) => link[i].inner = "node"
          /\ (link'[i].up /\ ~link[i].up) => link[i].inner = "node"
          /\ (link'[i].addr /\ ~link[i].addr) => link[i].inner = "node"
          /\ MainStarts(i) =>
                /\ link'[i].inner = "node"
                /\ link'[i].lo_up /\ link'[i].up /\ link'[i].addr
          /\ (npc[i] = "config" /\ npc'[i] = "exited") => status'[i] = Exited(1)
          /\ npc[i] = "exited" => npc'[i] = "exited"]_vars

C18_Witness ==
    /\ n = 3
    /\ npc[0] = "main" /\ link[0].addr
    /\ npc[1] = "config" /\ link[1].inner = "node" /\ link[1].index /\ ~link[1].up
    /\ npc[2] = "exited" /\ status[2] = Exited(1)
    /\ spc = "broker"

\* The interface of node j is created, attached to the bridge, up and
\* addressed.
PeerReady(j) ==
    /\ link[j].inner = "node"
    /\ link[j].outer_up /\ link[j].bridged
    /\ link[j].up /\ link[j].addr

\* C19: at the moment the `main` of any node starts, the interface of every
\* peer is already created, attached to the bridge, up and addressed.
C19_PeerReadiness ==
    [][\A i \in Nodes :
          MainStarts(i) => \A j \in Nodes \ {i} : PeerReady(j)]_vars

\* C20: once all nodes are spawned no pipe descriptor is shared across
\* nodes: no node process holds an end of another node's pipes.
C20_DescriptorOwnership ==
    spawned = n =>
        \A i, j \in Nodes : i # j => held[i] \cap (SelfEnds(j) \cup OtherEnds(j)) = {}

\* The address the caller gave for node k is unspecified.
NoAddress(k) == config_nodes[k].ifaddr.addr = 0

\* The hosts of 10.84.0.0/16: 10.84.0.1 to 10.84.255.254.
LastHost == Ipv4Addr(10, 84, 255, 254)

\* C21: in the normalised node list an empty name has become n<i> and an
\* unspecified ifaddr the i-th host of 10.84.0.0/16 with prefix 16 (node 0
\* gets 10.84.0.1), other names and addresses are as the caller gave them;
\* when no node supplies an address the addresses are pairwise distinct,
\* and a node past the last host makes the switch fail: no address is
\* pushed for it.
C21_Normalisation ==
    /\ \A k \in 1..Len(all_node_configs) :
          LET given == config_nodes[k - 1]
              i == base + k - 1
              out == all_node_configs[k]
          IN /\ out.name = IF given.name = "" THEN "n" \o ToString(i) ELSE given.name
             /\ out.ifaddr = IF NoAddress(k - 1)
                             THEN [addr |-> Ipv4Addr(10, 84, 0, 1) + i, prefix_len |-> 16]
                             ELSE given.ifaddr
             /\ NoAddress(k - 1) => out.ifaddr.addr <= LastHost
    /\ (\A k \in Nodes : NoAddress(k)) =>
          \A j, k \in 1..Len(all_node_configs) :
              j # k => all_node_configs[j].ifaddr # all_node_configs[k].ifaddr
    /\ \A k \in Nodes :
          (NoAddress(k) /\ Ipv4Addr(10, 84, 0, 1) + base + k > LastHost) =>
              /\ Len(all_node_configs) <= k
              /\ spc \in {"mount", "spawn", "broker", "reap", "exited"} =>
                    (spc = "exited" /\ swStatus = Exited(1))

C21_Witness ==
    /\ n = 3
    /\ base = HostCount - 2
    /\ config_nodes[0] = NodeConfig("node", IpNet(Ipv4Addr(10, 0, 0, 7), 24))
    /\ config_nodes[1] = NodeConfigDefault
    /\ config_nodes[2] = NodeConfigDefault
    /\ all_node_configs =
          <<NodeConfig("node", IpNet(Ipv4Addr(10, 0, 0, 7), 24)),
            NodeConfig("n65533", IpNet(Ipv4Addr(10, 84, 255, 254), 16))>>
    /\ swStatus = Exited(1)
    /\ testnetResult = "Err"

\* The reply tag each primitive expects.
Expected(o) ==
    CASE o = "send" -> "Wait"
      [] o = "wait" -> "Wait"
      [] o = "recv" -> "Send"
      [] o = "all" -> "BroadcastAllRecv"

\* The primitive node i is in returns in this step.
Returns(i) == npc[i] = "await" /\ npc'[i] = "main"

NothingLogged(i) == log'[i] = log[i] /\ step_name'[i] = step_name[i]

\* C22: a primitive that reads a reply whose tag is not the one it expects
\* returns the error "invalid response", and one that reads end of stream
\* returns an error; in both cases nothing is logged and the step name
\* stays as it was.
C22_ReplyValidation ==
    [][\A i \in Nodes :
          Returns(i) =>
              /\ (repPipe[i] # <<>> /\ Head(repPipe[i]).tag # Expected(op[i])) =>
                    (ret'[i] = <<"Err", "io", "other", "invalid response">> /\ NothingLogged(i))
              /\ repPipe[i] = <<>> =>
                    (ret'[i][1] = "Err" /\ NothingLogged(i))]_vars

C22_Witness ==
    /\ n = 2
    /\ npc[0] = "main" /\ calls[0] = 1 /\ reps[0] = 1 /\ step[0] = 0
    /\ ret[0] = Err("invalid response")
    /\ step_name[0] = StepName /\ log[0] = <<>>
    /\ npc[1] = "main" /\ calls[1] = 1 /\ reps[1] = 0 /\ step[1] = 1
    /\ repClosed[1]
    /\ ret[1] = Err("no response")
    /\ step_name[1] = StepName /\ log[1] = <<>>

\* The vector of the BroadcastAllReceive reply written to node i in this
\* step.
WrittenVector(i) == repPipe'[i][Len(repPipe'[i])].data

WritesVector(i) ==
    WritesReply(i) /\ repPipe'[i][Len(repPipe'[i])].tag = "BroadcastAllRecv"

MountFails == mounted = "none" /\ mounted' = "failed"

\* C24: a failure of the bind mount over /etc/hosts is not fatal: the
\* switch logs a warning and goes on to the spawn loop; when it then runs
\* the broker every node has been spawned, and the status it exits with
\* after reaping is 0 when every node exited 0 and 1 otherwise.
C24_MountFailure ==
    [][/\ MountFails =>
            /\ spc' = "spawn"
            /\ swStatus' = Running
            /\ swLog' = Append(swLog, <<"WARNING: bind mount failed">>)
       /\ (mounted = "failed" /\ spc' = "broker") =>
            (spawned' = n /\ \A i \in Nodes : npc'[i] # "unborn")
       /\ (mounted = "failed" /\ spc = "reap" /\ spc' = "exited") =>
            swStatus' = Exited(IF AllExitedZero THEN 0 ELSE 1)]_vars

C24_Witness ==
    /\ n = 3
    /\ mounted = "failed"
    /\ swLog = <<MountWarning>>
    /\ \A i \in Nodes : state[i].tag = "Dead" /\ status[i] = Exited(0)
    /\ swStatus = Exited(0)
    /\ testnetResult = "Ok"

====
